---- MODULE Spec2Model ----
(***************************************************************************)
(* Smash, a small command interpreter (src/main.cpp).                      *)
(*                                                                         *)
(* The model follows the program text: the tokenizer parse() is run        *)
(* character by character over the typed line, the dispatcher of main()    *)
(* looks the command up in cmdFunctions, and every *_cmd handler is one    *)
(* action.  Characters are one-character strings; a C string is the run of *)
(* characters of a buffer slot before the first NUL.                       *)
(*                                                                         *)
(* Standard input is a terminal: a read blocks until the user has typed a  *)
(* line, so the line is chosen when the program reads it.                  *)
(***************************************************************************)
EXTENDS Integers, Sequences, FiniteSets, TLC

\* ------------------------------------------------------------------------
\* Program constants
\* ------------------------------------------------------------------------

MAX_PARAMS == 4

MAX_PARAM_LENGTH == 100

\* ------------------------------------------------------------------------
\* Bounds of the model
\* ------------------------------------------------------------------------

\* most arguments typed after the command name on one line
MaxArgs == 4

\* most extra spaces on a line (beyond one space between two tokens)
MaxPad == 1

\* most processes alive at a time (the fork limit of the system)
MaxProcs == 3

\* ------------------------------------------------------------------------
\* Characters and strings
\* ------------------------------------------------------------------------

NUL == "NUL"

NL == "\n"

SP == " "

\* a character of uninitialised heap memory that is not NUL
JUNK == "?"

Upper ==
  <<"A","B","C","D","E","F","G","H","I","J","K","L","M",
    "N","O","P","Q","R","S","T","U","V","W","X","Y","Z">>

Lower ==
  <<"a","b","c","d","e","f","g","h","i","j","k","l","m",
    "n","o","p","q","r","s","t","u","v","w","x","y","z">>

tolower(c) ==
  IF \E i \in 1..26 : Upper[i] = c
    THEN Lower[CHOOSE i \in 1..26 : Upper[i] = c]
    ELSE c

\* n copies of the character c
Rep(c, n) == [i \in 1..n |-> c]

Slots == 0..(MAX_PARAMS - 1)

SlotIdx == 0..MAX_PARAM_LENGTH

\* A slot is an array of MAX_PARAM_LENGTH + 1 characters (line 128).  It is
\* kept as txt, the characters from index 0 up to the last one below index
\* MAX_PARAM_LENGTH that is not NUL (every character after them and below
\* MAX_PARAM_LENGTH is NUL), and top, the character at index MAX_PARAM_LENGTH.
Slot(txt, top) == [txt |-> txt, top |-> top]

\* slot[j]
Cell(slot, j) ==
  IF j = MAX_PARAM_LENGTH THEN slot.top
  ELSE IF j < Len(slot.txt) THEN slot.txt[j + 1]
  ELSE NUL

\* t without the NULs at its end
Trim(t) ==
  SubSeq(t, 1, CHOOSE m \in 0..Len(t) :
                 /\ m = Len(t) \/ t[m + 1] = NUL
                 /\ \A k \in (m + 1)..Len(t) : t[k] = NUL)

\* slot[j], slot[j+1], ... = cs, all within the slot
SetCells(slot, j, cs) ==
  LET n == Len(cs)
      low == IF j + n > MAX_PARAM_LENGTH THEN MAX_PARAM_LENGTH ELSE j + n
      len == IF Len(slot.txt) > low THEN Len(slot.txt) ELSE low
  IN Slot(Trim([k \in 1..len |->
                  IF k > j /\ k <= j + n THEN cs[k - j]
                  ELSE IF k <= Len(slot.txt) THEN slot.txt[k] ELSE NUL]),
          IF j + n > MAX_PARAM_LENGTH THEN cs[MAX_PARAM_LENGTH - j + 1] ELSE slot.top)

\* the C string held in a slot: the characters before the first NUL; a slot
\* without a NUL is read past its end, shown as the whole slot and JUNK
CStr(slot) ==
  IF \E k \in 1..Len(slot.txt) : slot.txt[k] = NUL
    THEN SubSeq(slot.txt, 1, (CHOOSE k \in 1..Len(slot.txt) :
                                /\ slot.txt[k] = NUL
                                /\ \A i \in 1..(k - 1) : slot.txt[i] # NUL) - 1)
  ELSE IF Len(slot.txt) < MAX_PARAM_LENGTH \/ slot.top = NUL THEN slot.txt
  ELSE slot.txt \o <<slot.top, JUNK>>

\* ------------------------------------------------------------------------
\* Reading standard input
\* ------------------------------------------------------------------------

\* a clearInput that drops nothing
clearInputNothing(in) == [rest |-> in, blocked |-> FALSE]

\* clearInput, lines 334-338: drop the input up to and including the next
\* newline; with no newline typed yet the call blocks
clearInput(in) ==
  IF \E j \in 1..Len(in) : in[j] = NL
    THEN LET n == CHOOSE j \in 1..Len(in) :
                    in[j] = NL /\ \A k \in 1..(j - 1) : in[k] # NL
         IN [rest |-> SubSeq(in, n + 1, Len(in)), blocked |-> FALSE]
    ELSE [rest |-> <<>>, blocked |-> TRUE]

IsSpace(c) == c = SP \/ c = NL

\* cin >> userInput, line 369: skip white space, then read up to the next
\* white space, which stays in the stream
RECURSIVE SkipSpace(_)
SkipSpace(in) ==
  IF in # <<>> /\ IsSpace(Head(in)) THEN SkipSpace(Tail(in)) ELSE in

RECURSIVE TakeWord(_, _)
TakeWord(word, in) ==
  IF in = <<>> THEN [tok |-> word, rest |-> in, blocked |-> TRUE]
  ELSE IF IsSpace(Head(in)) THEN [tok |-> word, rest |-> in, blocked |-> FALSE]
  ELSE TakeWord(Append(word, Head(in)), Tail(in))

ReadToken(in) == TakeWord(<<>>, SkipSpace(in))

\* ------------------------------------------------------------------------
\* parse, lines 273-332
\* ------------------------------------------------------------------------

\* a buffer that is not cleared
ClearBufferNothing(buf) == buf

\* a buffer of which only slot 0 is cleared
ClearBufferCommand(buf) == [i \in Slots |-> IF i = 0 THEN Slot(<<>>, buf[i].top) ELSE buf[i]]

\* lines 274-280: the first MAX_PARAM_LENGTH characters of each slot are
\* zeroed; index MAX_PARAM_LENGTH keeps its old value
ClearBuffer(buf) == [i \in Slots |-> Slot(<<>>, buf[i].top)]

\* a[i][j] = c for the characters cs, from index j on; a write outside the
\* allocation is recorded in oob
Store(s, i, j, cs) ==
  IF i \in Slots /\ j >= 0 /\ j + Len(cs) - 1 <= MAX_PARAM_LENGTH
    THEN [s EXCEPT !.a[i] = SetCells(s.a[i], j, cs)]
    ELSE [s EXCEPT !.oob = TRUE]

\* a space ends a parameter even when none was being read
InParamAlways(charCount) == charCount >= 0

\* line 295
InParam(charCount) == charCount > 0

\* the buffer taken as full one parameter too early
BufferFullEarly(paramCount) == paramCount >= MAX_PARAMS - 1

\* the buffer taken as full one parameter too late
BufferFullLate(paramCount) == paramCount > MAX_PARAMS

\* line 302, after ++paramCount
BufferFull(paramCount) == paramCount >= MAX_PARAMS

\* every parameter is put in lower case
IsCommandAny(paramCount) == paramCount >= 0

\* line 312
IsCommand(paramCount) == paramCount = 0

\* the limit taken one character too early
TooLongEarly(charCount) == charCount >= MAX_PARAM_LENGTH

\* the limit taken one character too late
TooLongLate(charCount) == charCount > MAX_PARAM_LENGTH + 1

\* line 316
TooLong(charCount) == charCount > MAX_PARAM_LENGTH

\* the position printed counting from one
ReportedParamFromOne(paramCount) == paramCount + 1

\* the number printed by line 319
ReportedParam(paramCount) == paramCount

Msg(m, arg) == [msg |-> m, arg |-> arg]

\* line 319
TooLongMsg(paramCount) ==
  Msg("Parameter exceeds maximum allowed characters",
      << ToString(ReportedParam(paramCount)), ToString(MAX_PARAM_LENGTH) >>)

\* the characters at the head of the input that are neither a space nor a newline
RunLen(in) ==
  CHOOSE m \in 0..Len(in) :
    /\ m = Len(in) \/ IsSpace(in[m + 1])
    /\ \A k \in 1..m : ~IsSpace(in[k])

\* lines 289-331, the read loop.  s holds the locals of parse (a, len,
\* paramCount, charCount), the unread input, the output, and blocked: the
\* input ran out before parse returned.  The iterations of lines 310-324 over
\* a run of non-space characters are taken together: they store the
\* characters one after the other until the run ends or line 316 holds.
RECURSIVE ParseLoop(_)
ParseLoop(s) ==
  IF s.in = <<>> THEN [s EXCEPT !.blocked = TRUE]
  ELSE IF Head(s.in) = NL
    THEN \* lines 328-331
         IF InParam(s.charCount)
           THEN [Store(s, s.paramCount, s.charCount, <<NUL>>)
                   EXCEPT !.in = Tail(s.in), !.len = s.len + 1]
           ELSE [s EXCEPT !.in = Tail(s.in)]
  ELSE IF Head(s.in) = SP
    THEN \* lines 290-308
         IF InParam(s.charCount)
           THEN LET s2 == [Store(s, s.paramCount, s.charCount, <<NUL>>)
                             EXCEPT !.in = Tail(s.in),
                                    !.charCount = 0,
                                    !.len = s.len + 1,
                                    !.paramCount = s.paramCount + 1]
                IN IF BufferFull(s2.paramCount)
                     THEN LET c == clearInput(s2.in)
                          IN [s2 EXCEPT !.in = c.rest, !.blocked = c.blocked]
                     ELSE ParseLoop(s2)
           ELSE ParseLoop([s EXCEPT !.in = Tail(s.in)])
  ELSE \* lines 310-324
    LET run == RunLen(s.in)
        take == CHOOSE t \in 1..run :
                  /\ t = run \/ TooLong(s.charCount + t)
                  /\ \A u \in 1..(t - 1) : ~TooLong(s.charCount + u)
        cs == [k \in 1..take |->
                 IF IsCommand(s.paramCount) THEN tolower(s.in[k]) ELSE s.in[k]]
        s2 == [Store(s, s.paramCount, s.charCount, cs)
                 EXCEPT !.in = SubSeq(s.in, take + 1, Len(s.in)),
                        !.charCount = s.charCount + take]
    IN IF TooLong(s2.charCount)
         THEN LET c == clearInput(s2.in)
              IN [s2 EXCEPT !.in = c.rest, !.blocked = c.blocked,
                            !.out = Append(s2.out, TooLongMsg(s2.paramCount)),
                            !.len = -1]
         ELSE ParseLoop(s2)

parse(buf, in) ==
  ParseLoop([a |-> ClearBuffer(buf), len |-> 0, paramCount |-> 0, charCount |-> 0,
             in |-> in, out |-> <<>>, blocked |-> FALSE, oob |-> FALSE])

\* ------------------------------------------------------------------------
\* The lines a user types
\* ------------------------------------------------------------------------

W_copy == <<"c", "o", "p", "y">>

W_list == <<"l", "i", "s", "t">>

W_run == <<"r", "u", "n">>

W_help == <<"h", "e", "l", "p">>

W_quit == <<"q", "u", "i", "t">>

\* the command words typed: the five commands and a word that is no command
CmdWords == { W_copy, W_list, W_run, W_help, W_quit, <<"z", "z">> }

\* the same in upper and mixed case
CaseWords == { <<"C", "o", "P", "y">>, <<"Q", "U", "I", "T">>, <<"R", "u", "n">> }

\* the argument words typed: the names of two files
ArgWords == { <<"a">>, <<"B">> }

\* a token of n characters; in the command position it is upper case
LongCmd(n) == Rep("X", n)

LongArg(n) == Rep("x", n)

LongLens == { MAX_PARAM_LENGTH, MAX_PARAM_LENGTH + 1 }

\* all sequences of at most n elements of S
RECURSIVE SeqsUpTo(_, _)
SeqsUpTo(S, n) ==
  IF n = 0 THEN { <<>> }
  ELSE LET shorter == SeqsUpTo(S, n - 1)
       IN shorter \cup { Append(q, x) : q \in { r \in shorter : Len(r) = n - 1 }, x \in S }

\* token sequences: nothing, or a command word and up to MaxArgs argument words
ShortTokens ==
  { <<>> } \cup
  { <<c>> \o args : c \in CmdWords \cup CaseWords, args \in SeqsUpTo(ArgWords, MaxArgs) }

\* token sequences with one long token, at any position
LongTokens ==
  UNION { { [i \in 1..k |-> IF i = p THEN (IF p = 1 THEN LongCmd(n) ELSE LongArg(n))
                            ELSE IF i = 1 THEN W_list ELSE <<"a">>] :
              p \in 1..k, n \in LongLens } : k \in 1..(MaxArgs + 1) }

\* token sequences of the commands: every command word with every sequence of
\* at most two argument words, and with more arguments than any command takes;
\* no token, and a token that is too long
CommandTokens ==
  { <<>>, <<LongCmd(MAX_PARAM_LENGTH + 1)>> } \cup
  { <<c>> \o args : c \in CmdWords,
      args \in SeqsUpTo(ArgWords, 2) \cup
               { <<<<"a">>, <<"B">>>> \o Rep(<<"a">>, n) : n \in 1..(MaxArgs - 2) } }

\* lead spaces, spaces between two tokens, trailing spaces
NoPad == [lead |-> 0, gap |-> 1, trail |-> 0]

Pads ==
  { p \in [lead : 0..MaxPad, gap : 1..(MaxPad + 1), trail : 0..MaxPad] :
      p.lead + (p.gap - 1) + p.trail <= MaxPad }

RECURSIVE Join(_, _)
Join(toks, gap) ==
  IF toks = <<>> THEN <<>>
  ELSE IF Len(toks) = 1 THEN toks[1]
  ELSE toks[1] \o Rep(SP, gap) \o Join(Tail(toks), gap)

Render(toks, pad) ==
  Rep(SP, pad.lead) \o Join(toks, pad.gap) \o Rep(SP, pad.trail) \o <<NL>>

\* what is typed at a prompt: the tokens, the spacing, the line they make,
\* and what is typed ahead before the program reads
Typing(toks, pad, ahead) ==
  [toks |-> toks, pad |-> pad, line |-> Render(toks, pad), ahead |-> ahead]

NoTyping == [toks |-> <<>>, pad |-> NoPad, line |-> <<>>, ahead |-> <<>>]

\* the lines of a session of commands
CommandLines == { Typing(t, NoPad, <<>>) : t \in CommandTokens }

\* the lines given to the tokenizer: all spacings, long tokens, and a line
\* typed ahead
TypedAhead == { <<>>, W_quit \o <<NL>> }

TokenLines ==
  { Typing(t, p, ah) : t \in ShortTokens \cup LongTokens, p \in Pads, ah \in TypedAhead }

\* token sequences that call no handler: up to MaxArgs + 1 tokens, the first
\* one no command, with at most one token at the limit, at any position
BufferTokens ==
  UNION { { [i \in 1..k |-> IF i = 1 THEN <<"z", "z">> ELSE <<"a">>] } \cup
          { [i \in 1..k |-> IF i = q THEN (IF q = 1 THEN LongCmd(n) ELSE LongArg(n))
                            ELSE IF i = 1 THEN <<"z", "z">> ELSE <<"a">>] :
              q \in 1..k, n \in LongLens } : k \in 0..(MaxArgs + 1) }

\* the lines of a session in which every line is refused
BufferLines == { Typing(t, NoPad, <<>>) : t \in BufferTokens }

\* what the user answers at the overwrite prompt: one line, or an empty line
\* and then one line
Responses ==
  { <<"y", NL>>, <<"n", NL>>, <<"Y", NL>>, <<"y", "e", "s", NL>>,
    <<SP, "y", SP, NL>>, <<"y", SP, "n", NL>>, <<NL, "y", NL>>, <<NL, "n", SP, "y", NL>> }

\* ------------------------------------------------------------------------
\* Files
\* ------------------------------------------------------------------------

Absent == [data |-> "none", mode |-> "-"]

File(d, m) == [data |-> d, mode |-> m]

\* the names of the files there can be
FileNames == ArgWords

Exists(f, name) == name \in DOMAIN f /\ f[name] # Absent

Readable(f, name) == Exists(f, name) /\ f[name].mode \in {"rw", "r", "rx"}

Writable(f, name) == Exists(f, name) /\ f[name].mode \in {"rw", "w"}

Executable(f, name) == Exists(f, name) /\ f[name].mode = "rx"

\* ------------------------------------------------------------------------
\* State
\* ------------------------------------------------------------------------

Pids == 1..MaxProcs

VARIABLES
  pc,       \* pc[p]: where process p is
            \*   "unborn"  no such process
            \*   "prompt"  main, line 136: about to print the prompt and parse
            \*   "parsed"  main, line 141: parse has returned
            \*   "ret"     main, line 153: the end of the loop body
            \*   "wait"    run_cmd, line 264: blocked in wait
            \*   "exec"    run_cmd, line 266: the child, about to call execl
            \*   "prog"    running the image execl loaded
            \*   "exited"  terminated, not yet reaped
  a,        \* a[p]: the buffer of process p
  aLength,  \* aLength[p]
  parent,   \* parent[p]: the process that forked p (0: none of these)
  cin,      \* characters typed and not yet read
  fs,       \* the files
  out,      \* what was printed in this iteration of the loop
  io,       \* handler calls and system calls of this iteration
  typed,    \* what was typed at the prompt of this iteration
  oob       \* a write has landed outside a buffer slot

vars == << pc, a, aLength, parent, cin, fs, out, io, typed, oob >>

\* the memory of a process that does not exist
NoBuffer == [i \in Slots |-> Slot(<<>>, NUL)]

\* main, lines 126-129: new char[] leaves the slots uninitialised
InitBuffers ==
  { [i \in Slots |-> Slot(Trim(Rep(g, MAX_PARAM_LENGTH)), g)] : g \in {NUL, JUNK} }

InitFiles ==
  { [n \in FileNames |-> IF n = <<"a">> THEN fa ELSE fb] :
      fa \in { Absent, File("da", "rw") },
      fb \in { Absent, File("db", "rw"), File("db", "w"), File("db", "rx") } }

Init ==
  /\ pc = [p \in Pids |-> IF p = 1 THEN "prompt" ELSE "unborn"]
  /\ \E b \in InitBuffers : a = [p \in Pids |-> IF p = 1 THEN b ELSE NoBuffer]
  /\ aLength = [p \in Pids |-> 0]
  /\ parent = [p \in Pids |-> 0]
  /\ cin = <<>>
  /\ fs \in InitFiles
  /\ out = <<>>
  /\ io = <<>>
  /\ typed = NoTyping
  /\ oob = FALSE

Ev(op, obj, name, ok) == [op |-> op, obj |-> obj, name |-> name, ok |-> ok]

\* ------------------------------------------------------------------------
\* main, lines 135-153
\* ------------------------------------------------------------------------

\* lines 136-138: print the prompt and parse what the user types
ReadLine(p, lines) ==
  /\ pc[p] = "prompt"
  /\ \E t \in lines :
       \E r \in { parse(a[p], cin \o t.line \o t.ahead) } :
          /\ ~r.blocked
          /\ a' = [a EXCEPT ![p] = r.a]
          /\ aLength' = [aLength EXCEPT ![p] = r.len]
          /\ cin' = r.in
          /\ out' = <<Msg("PROMPT", <<>>)>> \o r.out
          /\ oob' = (oob \/ r.oob)
          /\ typed' = t
  /\ pc' = [pc EXCEPT ![p] = "parsed"]
  /\ io' = <<>>
  /\ UNCHANGED << parent, fs >>

\* a parse error that ends the process
SkipLineExits(p) ==
  /\ pc[p] = "parsed"
  /\ aLength[p] = -1
  /\ pc' = [pc EXCEPT ![p] = "exited"]
  /\ UNCHANGED << a, aLength, parent, cin, fs, out, io, typed, oob >>

\* lines 141-142
SkipLine(p) ==
  /\ pc[p] = "parsed"
  /\ aLength[p] = -1
  /\ pc' = [pc EXCEPT ![p] = "ret"]
  /\ UNCHANGED << a, aLength, parent, cin, fs, out, io, typed, oob >>

\* initMap, lines 340-347
cmdFunctions == { W_help, W_quit, W_copy, W_list, W_run }

\* line 146: the key looked up is the C string in slot 0
Dispatches(p, word) ==
  /\ pc[p] = "parsed"
  /\ aLength[p] # -1
  /\ CStr(a[p][0]) = word

\* lines 149-152
Unrecognized(p) ==
  /\ pc[p] = "parsed"
  /\ aLength[p] # -1
  /\ CStr(a[p][0]) \notin cmdFunctions
  /\ out' = out \o << Msg("Unrecognized command", CStr(a[p][0])),
                      Msg("Type help to view a list of valid commands", <<>>) >>
  /\ pc' = [pc EXCEPT ![p] = "ret"]
  /\ UNCHANGED << a, aLength, parent, cin, fs, io, typed, oob >>

\* line 135: the next iteration
LoopBack(p) ==
  /\ pc[p] = "ret"
  /\ pc' = [pc EXCEPT ![p] = "prompt"]
  /\ out' = <<>>
  /\ io' = <<>>
  /\ typed' = NoTyping
  /\ UNCHANGED << a, aLength, parent, cin, fs, oob >>

\* ------------------------------------------------------------------------
\* help and quit, lines 158-173
\* ------------------------------------------------------------------------

help_cmd(p) ==
  /\ Dispatches(p, W_help)
  /\ io' = Append(io, Ev("call", "help_cmd", <<>>, TRUE))
  /\ out' = Append(out, Msg("Welcome to smash", <<>>))
  /\ pc' = [pc EXCEPT ![p] = "ret"]
  /\ UNCHANGED << a, aLength, parent, cin, fs, typed, oob >>

quit_cmd(p) ==
  /\ Dispatches(p, W_quit)
  /\ io' = io \o << Ev("call", "quit_cmd", <<>>, TRUE), Ev("exit", "EXIT_SUCCESS", <<>>, TRUE) >>
  /\ out' = Append(out, Msg("Thanks for choosing smash", <<>>))
  /\ pc' = [pc EXCEPT ![p] = "exited"]
  /\ UNCHANGED << a, aLength, parent, cin, fs, typed, oob >>

\* ------------------------------------------------------------------------
\* copy, lines 175-209 and 349-387
\* ------------------------------------------------------------------------

\* the two pointers compared in place of the strings
SameFilePointers(src, dst) == FALSE

\* line 184: strcmp(a[1], a[2]) == 0
SameFile(src, dst) == src = dst

\* any answer that begins with y or Y
AffirmativeLoose(tok) == tok # <<>> /\ tolower(tok[1]) = "y"

\* line 371: the answer that lets the copy go on
Affirmative(tok) == tok = <<"y">>

\* the result of a step of copy: the files, the unread input, what it printed
\* and did, and blocked: it waits for input that has not been typed
Res(ok, f, in, o, e, blocked) ==
  [ok |-> ok, fs |-> f, in |-> in, out |-> o, io |-> e, blocked |-> blocked]

\* a createInStream that reports the failure and still returns true
createInStreamGoesOn(f, in, fileName) ==
  IF Readable(f, fileName)
    THEN Res(TRUE, f, in, <<>>, <<Ev("open", "inStream", fileName, TRUE)>>, FALSE)
    ELSE Res(TRUE, f, in,
             << Msg("File doesn't exist or has invalid permissions", fileName),
                Msg("Cannot continue requested operation", <<>>) >>,
             <<Ev("open", "inStream", fileName, FALSE)>>, FALSE)

\* lines 349-357
createInStream(f, in, fileName) ==
  IF Readable(f, fileName)
    THEN Res(TRUE, f, in, <<>>, <<Ev("open", "inStream", fileName, TRUE)>>, FALSE)
    ELSE Res(FALSE, f, in,
             << Msg("File doesn't exist or has invalid permissions", fileName),
                Msg("Cannot continue requested operation", <<>>) >>,
             <<Ev("open", "inStream", fileName, FALSE)>>, FALSE)

\* lines 359-377: the file is taken to exist when it opens for reading
validateOutFile(f, in, fileName) ==
  IF Readable(f, fileName)
    THEN LET t == ReadToken(in)
             c == clearInput(t.rest)
             ask == << Msg("File already exists", fileName),
                       Msg("If you continue, this file will be overwritten", <<>>),
                       Msg("Do you wish to continue (y/n)?", <<>>) >>
             e == << Ev("open", "stream", fileName, TRUE),
                     Ev("close", "stream", fileName, TRUE),
                     Ev("read", "userInput", t.tok, TRUE) >>
         IN IF Affirmative(t.tok)
              THEN Res(TRUE, f, c.rest, ask, e, t.blocked \/ c.blocked)
              ELSE Res(FALSE, f, c.rest, Append(ask, Msg("Operation aborted", <<>>)), e,
                       t.blocked \/ c.blocked)
    ELSE Res(TRUE, f, in, <<>>, <<Ev("open", "stream", fileName, FALSE)>>, FALSE)

\* the files with one of them replaced
Put(f, name, file) == [n \in DOMAIN f \cup {name} |-> IF n = name THEN file ELSE f[n]]

\* lines 379-387: opening for writing creates the file or empties it
createOutStream(f, in, fileName) ==
  IF ~Exists(f, fileName) \/ Writable(f, fileName)
    THEN Res(TRUE,
             Put(f, fileName, File("", IF Exists(f, fileName) THEN f[fileName].mode ELSE "rw")),
             in, <<>>, <<Ev("open", "outStream", fileName, TRUE)>>, FALSE)
    ELSE Res(FALSE, f, in,
             << Msg("Unknown error creating output file", fileName),
                Msg("Cannot continue requested operation", <<>>) >>,
             <<Ev("open", "outStream", fileName, FALSE)>>, FALSE)

\* a copy that closes no stream
CloseNeither(src, dst) == <<>>

\* lines 196-197 and 207-208
CloseBoth(src, dst) ==
  << Ev("close", "inStream", src, TRUE), Ev("close", "outStream", dst, TRUE) >>

\* lines 176-208, given the input in
CopyBody(f, in, len, src, dst) ==
  IF len # 3
    THEN Res(FALSE, f, in,
             << Msg("Invalid number of arguments", <<>>),
                Msg("Usage: copy <old-filename> <new-filename>", <<>>) >>, <<>>, FALSE)
  ELSE IF SameFile(src, dst)
    THEN Res(FALSE, f, in, <<Msg("Cannot copy same file!", <<>>)>>, <<>>, FALSE)
  ELSE
    LET i == createInStream(f, in, src)
        v == validateOutFile(i.fs, i.in, dst)
        o == createOutStream(v.fs, v.in, dst)
    IN IF ~i.ok
         THEN Res(FALSE, i.fs, i.in, i.out, i.io \o CloseBoth(src, dst), FALSE)
       ELSE IF ~v.ok
         THEN Res(FALSE, v.fs, v.in, i.out \o v.out, i.io \o v.io \o CloseBoth(src, dst),
                  v.blocked)
       ELSE IF ~o.ok
         THEN Res(FALSE, o.fs, o.in, i.out \o v.out \o o.out,
                  i.io \o v.io \o o.io \o CloseBoth(src, dst), v.blocked)
       ELSE \* lines 202-208: every character of the source is written
         Res(TRUE, Put(o.fs, dst, File(o.fs[src].data, o.fs[dst].mode)), o.in,
             i.out \o v.out, i.io \o v.io \o o.io \o CloseBoth(src, dst), v.blocked)

copy_cmd(p) ==
  /\ Dispatches(p, W_copy)
  /\ LET len == aLength[p]
         src == CStr(a[p][1])
         dst == CStr(a[p][2])
         r0 == CopyBody(fs, cin, len, src, dst)
     IN \E answer \in IF r0.blocked THEN Responses ELSE { <<>> } :
          \E r \in { CopyBody(fs, cin \o answer, len, src, dst) } :
             /\ ~r.blocked
             /\ fs' = r.fs
             /\ cin' = r.in
             /\ out' = out \o r.out
             /\ io' = Append(io, Ev("call", "copy_cmd", <<>>, TRUE)) \o r.io
  /\ pc' = [pc EXCEPT ![p] = "ret"]
  /\ UNCHANGED << a, aLength, parent, typed, oob >>

\* ------------------------------------------------------------------------
\* list, lines 211-237
\* ------------------------------------------------------------------------

CWD == <<".", "/">>

\* the only directory is the current one
IsDir(f, name) == name = CWD

\* the order in which readdir gives the entries
DirOrder == << <<"a">>, <<"B">> >>

RECURSIVE Entries(_, _)
Entries(f, names) ==
  IF names = <<>> THEN <<>>
  ELSE (IF Exists(f, Head(names)) THEN <<Msg("entry", Head(names))>> ELSE <<>>)
       \o Entries(f, Tail(names))

list_cmd(p) ==
  /\ Dispatches(p, W_list)
  /\ LET len == aLength[p]
         dir == IF len = 2 THEN CStr(a[p][1]) ELSE CWD
         call == Ev("call", "list_cmd", <<>>, TRUE)
     IN IF len > 2
          THEN /\ out' = out \o << Msg("Too many arguments", <<>>),
                                   Msg("Usage: list [<directory>]", <<>>) >>
               /\ io' = Append(io, call)
        ELSE IF IsDir(fs, dir)
          THEN /\ out' = out \o Entries(fs, DirOrder)
               /\ io' = io \o << call, Ev("opendir", "dp", dir, TRUE),
                                 Ev("closedir", "dp", dir, TRUE) >>
          ELSE /\ out' = Append(out, Msg("Unable to open the directory", <<>>))
               /\ io' = io \o << call, Ev("opendir", "dp", dir, FALSE) >>
  /\ pc' = [pc EXCEPT ![p] = "ret"]
  /\ UNCHANGED << a, aLength, parent, cin, fs, typed, oob >>

\* ------------------------------------------------------------------------
\* run, lines 239-267 and 389-393
\* ------------------------------------------------------------------------

\* a check that finds every file
fileExistsAlways(f, fileName) == TRUE

\* stat(fileName) == 0
fileExists(f, fileName) == Exists(f, fileName)

\* a parent that does not wait for its child
ParentAfterForkGoesOn == "ret"

\* lines 263-264: after a fork that succeeded the parent calls wait
ParentAfterFork == "wait"

run_cmd(p) ==
  /\ Dispatches(p, W_run)
  /\ LET len == aLength[p]
         name == CStr(a[p][1])
         call == Ev("call", "run_cmd", <<>>, TRUE)
     IN IF len # 2
          THEN /\ out' = out \o << Msg("Invalid number of arguments", <<>>),
                                   Msg("Usage: run <executable-file>", <<>>) >>
               /\ io' = Append(io, call)
               /\ pc' = [pc EXCEPT ![p] = "ret"]
               /\ UNCHANGED << a, aLength, parent >>
        ELSE IF ~fileExists(fs, name)
          THEN /\ out' = Append(out, Msg("Unable to find executable file", name))
               /\ io' = io \o << call, Ev("stat", "tmpBuffer", name, FALSE) >>
               /\ pc' = [pc EXCEPT ![p] = "ret"]
               /\ UNCHANGED << a, aLength, parent >>
        ELSE \/ \* lines 256-259: fork returned -1
                /\ out' = Append(out, Msg("Fork failed", <<>>))
                /\ io' = io \o << call, Ev("stat", "tmpBuffer", name, TRUE),
                                  Ev("fork", "p", name, FALSE) >>
                /\ pc' = [pc EXCEPT ![p] = "ret"]
                /\ UNCHANGED << a, aLength, parent >>
             \/ \* the child is a copy of the parent; the parent goes on to wait.
                \* The child is named by the lowest number not in use.
                \E c \in Pids :
                  /\ pc[c] = "unborn"
                  /\ \A d \in Pids : pc[d] = "unborn" => c <= d
                  /\ pc' = [pc EXCEPT ![p] = ParentAfterFork, ![c] = "exec"]
                  /\ a' = [a EXCEPT ![c] = a[p]]
                  /\ aLength' = [aLength EXCEPT ![c] = aLength[p]]
                  /\ parent' = [parent EXCEPT ![c] = p]
                  /\ out' = out
                  /\ io' = io \o << call, Ev("stat", "tmpBuffer", name, TRUE),
                                    Ev("fork", "p", name, TRUE) >>
  /\ UNCHANGED << cin, fs, typed, oob >>

\* a child that terminates when execl fails
execlOrExit(c) ==
  /\ pc[c] = "exec"
  /\ LET name == CStr(a[c][1])
     IN IF Executable(fs, name)
          THEN /\ pc' = [pc EXCEPT ![c] = "prog"]
               /\ a' = [a EXCEPT ![c] = NoBuffer]
               /\ aLength' = [aLength EXCEPT ![c] = 0]
               /\ io' = Append(io, Ev("execl", "child", name, TRUE))
          ELSE /\ pc' = [pc EXCEPT ![c] = "exited"]
               /\ UNCHANGED << a, aLength >>
               /\ io' = Append(io, Ev("execl", "child", name, FALSE))
  /\ UNCHANGED << parent, cin, fs, out, typed, oob >>

\* line 266, in the child: execl replaces the image, or fails and returns
execl(c) ==
  /\ pc[c] = "exec"
  /\ LET name == CStr(a[c][1])
     IN IF Executable(fs, name)
          THEN /\ pc' = [pc EXCEPT ![c] = "prog"]
               /\ a' = [a EXCEPT ![c] = NoBuffer]
               /\ aLength' = [aLength EXCEPT ![c] = 0]
               /\ io' = Append(io, Ev("execl", "child", name, TRUE))
          ELSE /\ pc' = [pc EXCEPT ![c] = "ret"]
               /\ UNCHANGED << a, aLength >>
               /\ io' = Append(io, Ev("execl", "child", name, FALSE))
  /\ UNCHANGED << parent, cin, fs, out, typed, oob >>

\* the program that was run terminates
ProgExit(c) ==
  /\ pc[c] = "prog"
  /\ pc' = [pc EXCEPT ![c] = "exited"]
  /\ UNCHANGED << a, aLength, parent, cin, fs, out, io, typed, oob >>

\* a wait that returns for a child that still runs
TerminatedOrNot(st) == st # "unborn"

\* wait(NULL), line 264, returns for a child that has terminated
Terminated(st) == st = "exited"

\* line 264, in the parent: wait returns once a child has terminated
WaitReturn(p) ==
  /\ pc[p] = "wait"
  /\ \E c \in Pids :
       /\ parent[c] = p
       /\ Terminated(pc[c])
       /\ pc' = [pc EXCEPT ![p] = "ret", ![c] = "unborn"]
       /\ a' = [a EXCEPT ![c] = NoBuffer]
       /\ aLength' = [aLength EXCEPT ![c] = 0]
       /\ parent' = [parent EXCEPT ![c] = 0]
  /\ io' = Append(io, Ev("wait", "p", <<>>, TRUE))
  /\ UNCHANGED << cin, fs, out, typed, oob >>

\* ------------------------------------------------------------------------
\* Specifications
\* ------------------------------------------------------------------------

\* what a process does after parse has returned
Handle(p) ==
  \/ SkipLine(p)
  \/ Unrecognized(p)
  \/ help_cmd(p)
  \/ quit_cmd(p)
  \/ copy_cmd(p)
  \/ list_cmd(p)
  \/ run_cmd(p)
  \/ execl(p)
  \/ ProgExit(p)
  \/ WaitReturn(p)

\* a session of commands
Next == \E p \in Pids : ReadLine(p, CommandLines) \/ Handle(p) \/ LoopBack(p)

Spec == Init /\ [][Next]_vars

\* the first line of a session, over every line of TokenLines
NextFirstLine == \E p \in Pids : ReadLine(p, TokenLines) \/ Handle(p)

SpecFirstLine == Init /\ [][NextFirstLine]_vars

\* a session of lines that call no handler
NextLines ==
  \E p \in Pids :
    ReadLine(p, BufferLines) \/ SkipLine(p) \/ Unrecognized(p) \/ LoopBack(p)

SpecLines == Init /\ [][NextLines]_vars

\* ------------------------------------------------------------------------
\* Properties
\* ------------------------------------------------------------------------

LowerWord(tok) == [k \in 1..Len(tok) |-> tolower(tok[k])]

\* what slot i - 1 is to hold for the i-th token of a line
Stored(i, tok) == IF i = 1 THEN LowerWord(tok) ELSE tok

OverLong(tok) == Len(tok) > MAX_PARAM_LENGTH

\* the positions of the first MAX_PARAMS tokens
Kept(toks) == 1..(IF Len(toks) < MAX_PARAMS THEN Len(toks) ELSE MAX_PARAMS)

Prompt == Msg("PROMPT", <<>>)

Call(handler) == Ev("call", handler, <<>>, TRUE)

\* process p has taken a step
Stepped(p) == pc'[p] # pc[p]

Printed(o, m) == \E k \in 1..Len(o) : o[k].msg = m

Did(e, op, obj) == \E k \in 1..Len(e) : e[k].op = op /\ e[k].obj = obj

\* C1: among the first MAX_PARAMS tokens of a line, a token of exactly
\* MAX_PARAM_LENGTH characters is stored in full and the count is not negative
\* (when no token among them is longer); a token of MAX_PARAM_LENGTH + 1
\* characters makes parse return -1; and after a line with count -1 no handler
\* was called and nothing but the prompt and the diagnostic of parse was
\* printed when the loop body ends.
C1_LengthBoundary ==
  \A p \in Pids :
    /\ pc[p] = "parsed" =>
         /\ (\E i \in Kept(typed.toks) : Len(typed.toks[i]) = MAX_PARAM_LENGTH + 1)
              => aLength[p] = -1
         /\ (\A i \in Kept(typed.toks) : ~OverLong(typed.toks[i]))
              => /\ aLength[p] >= 0
                 /\ \A i \in Kept(typed.toks) :
                      Len(typed.toks[i]) = MAX_PARAM_LENGTH
                        => CStr(a[p][i - 1]) = Stored(i, typed.toks[i])
    /\ (pc[p] \in {"parsed", "ret"} /\ aLength[p] = -1) =>
         /\ io = <<>>
         /\ Len(out) = 2
         /\ out[1] = Prompt
         /\ out[2].msg = "Parameter exceeds maximum allowed characters"

C1_Witness ==
  \E p \in Pids :
    /\ pc[p] = "ret"
    /\ aLength[p] = -1
    /\ \E i \in Kept(typed.toks) : Len(typed.toks[i]) = MAX_PARAM_LENGTH + 1

\* C2: a line of more than MAX_PARAMS tokens whose first MAX_PARAMS tokens are
\* not too long gives count MAX_PARAMS, the first MAX_PARAMS tokens in the
\* slots in order (the command name in lower case), no diagnostic, and leaves
\* the input at the first character typed after the line.
C2_Truncation ==
  \A p \in Pids :
    ( /\ pc[p] = "parsed"
      /\ Len(typed.toks) > MAX_PARAMS
      /\ \A i \in 1..MAX_PARAMS : ~OverLong(typed.toks[i]) )
    => /\ aLength[p] = MAX_PARAMS
       /\ \A i \in 1..MAX_PARAMS : CStr(a[p][i - 1]) = Stored(i, typed.toks[i])
       /\ out = <<Prompt>>
       /\ cin = typed.ahead

C2_Witness ==
  \E p \in Pids :
    /\ pc[p] = "parsed"
    /\ Len(typed.toks) > MAX_PARAMS
    /\ aLength[p] = MAX_PARAMS
    /\ typed.ahead # <<>>
    /\ cin = typed.ahead

\* C3: the result of parse does not depend on the spacing of the line: on the
\* typed line it leaves the buffer, the count and the input that parse leaves
\* on the same tokens with single spaces and no space at either end; no
\* slot below the count holds an empty string; the input is left at the first
\* character typed after the line.
C3_WhitespaceInvariance ==
  [][ \A p \in Pids :
        (pc[p] = "prompt" /\ pc'[p] = "parsed") =>
          LET r == parse(a[p], cin \o Render(typed'.toks, NoPad) \o typed'.ahead)
          IN /\ a'[p] = r.a
             /\ aLength'[p] = r.len
             /\ cin' = r.in
             /\ cin' = typed'.ahead
             /\ \A i \in 0..(aLength'[p] - 1) : CStr(a'[p][i]) # <<>> ]_vars

C3_Witness ==
  \E p \in Pids :
    /\ pc[p] = "parsed"
    /\ typed.pad.gap > 1
    /\ Len(typed.toks) >= 2
    /\ aLength[p] = Len(typed.toks)

C5_AnyPositionAborts ==
  \A p \in Pids :
    (pc[p] = "parsed" /\ \E i \in 1..Len(typed.toks) : OverLong(typed.toks[i]))
      => aLength[p] = -1

\* C5, amended: a token longer than MAX_PARAM_LENGTH among the first
\* MAX_PARAMS tokens makes parse print the diagnostic, drop the rest of the
\* line and return -1; when the only tokens that long come after the
\* MAX_PARAMS-th, they are dropped with the rest of the line and parse returns
\* MAX_PARAMS with no diagnostic.
C5_KeptPositionAborts ==
  \A p \in Pids :
    pc[p] = "parsed" =>
      /\ (\E i \in Kept(typed.toks) : OverLong(typed.toks[i]))
           => /\ aLength[p] = -1
              /\ cin = typed.ahead
              /\ Printed(out, "Parameter exceeds maximum allowed characters")
      /\ ( /\ \A i \in Kept(typed.toks) : ~OverLong(typed.toks[i])
           /\ \E i \in 1..Len(typed.toks) : OverLong(typed.toks[i]) )
           => /\ aLength[p] = MAX_PARAMS
              /\ cin = typed.ahead
              /\ out = <<Prompt>>

C5_Witness ==
  \E p \in Pids :
    /\ pc[p] = "parsed"
    /\ Len(typed.toks) > MAX_PARAMS
    /\ OverLong(typed.toks[MAX_PARAMS + 1])
    /\ aLength[p] = MAX_PARAMS

\* the position, counted from one, of the first token that is too long
FirstOverLong(toks) ==
  CHOOSE i \in 1..Len(toks) :
    OverLong(toks[i]) /\ \A k \in 1..(i - 1) : ~OverLong(toks[k])

\* C6, as the spec states it: the diagnostic names the token that is too long
\* by its position counted from one.
C6_PositionFromOne ==
  \A p \in Pids :
    (pc[p] = "parsed" /\ aLength[p] = -1)
      => out[2].arg = << ToString(FirstOverLong(typed.toks)), ToString(MAX_PARAM_LENGTH) >>

\* C6, amended: the diagnostic names the token that is too long by its
\* position counted from zero (the command name is parameter 0), together
\* with MAX_PARAM_LENGTH.
C6_PositionFromZero ==
  \A p \in Pids :
    (pc[p] = "parsed" /\ aLength[p] = -1)
      => /\ Len(out) = 2
         /\ out[2] = Msg("Parameter exceeds maximum allowed characters",
                         << ToString(FirstOverLong(typed.toks) - 1),
                            ToString(MAX_PARAM_LENGTH) >>)

C6_Witness ==
  \E p \in Pids :
    /\ pc[p] = "parsed"
    /\ aLength[p] = -1
    /\ FirstOverLong(typed.toks) = 3
    /\ out[2].arg[1] = "2"

\* the step of process p is a call of copy with count 3
CopiesThree(p) ==
  /\ Dispatches(p, W_copy)
  /\ aLength[p] = 3
  /\ Stepped(p)

AskedToOverwrite(o) == Printed(o, "Do you wish to continue (y/n)?")

\* the answer read at the overwrite prompt is tok
Answered(e, tok) == \E k \in 1..Len(e) : e[k].op = "read" /\ e[k].name = tok

\* C7: copy with count 3 and the same string as source and destination prints
\* the refusal and nothing else, opens no stream, reads no answer, and leaves
\* the files and the input as they were, whether the file exists or not.
C7_SameFileRefused ==
  [][ \A p \in Pids :
        (CopiesThree(p) /\ CStr(a[p][1]) = CStr(a[p][2])) =>
          /\ out' = Append(out, Msg("Cannot copy same file!", <<>>))
          /\ io' = Append(io, Call("copy_cmd"))
          /\ fs' = fs
          /\ cin' = cin ]_vars

C7_Witness ==
  \E p \in Pids :
    /\ pc[p] = "ret"
    /\ aLength[p] = 3
    /\ CStr(a[p][1]) = CStr(a[p][2])
    /\ Exists(fs, CStr(a[p][1]))
    /\ io = <<Call("copy_cmd")>>
    /\ Printed(out, "Cannot copy same file!")

\* C8: copy whose source does not open for reading prints the
\* does-not-exist message, shows no overwrite prompt, reads no answer, does
\* not probe or open the destination, and leaves every file as it was.
C8_MissingSourceAborts ==
  [][ \A p \in Pids :
        ( /\ CopiesThree(p)
          /\ CStr(a[p][1]) # CStr(a[p][2])
          /\ ~Readable(fs, CStr(a[p][1])) ) =>
          /\ Printed(out', "File doesn't exist or has invalid permissions")
          /\ ~AskedToOverwrite(out')
          /\ ~Did(io', "open", "stream")
          /\ ~Did(io', "open", "outStream")
          /\ fs' = fs
          /\ cin' = cin ]_vars

C8_Witness ==
  \E p \in Pids :
    /\ pc[p] = "ret"
    /\ aLength[p] = 3
    /\ io # <<>>
    /\ io[1] = Call("copy_cmd")
    /\ Ev("open", "inStream", CStr(a[p][1]), FALSE) \in { io[k] : k \in 1..Len(io) }
    /\ ~Exists(fs, CStr(a[p][2]))

\* C9: when copy shows the overwrite prompt and the answer read is not exactly
\* y, it prints "Operation aborted" last, does not open the destination for
\* writing, leaves every file as it was, and has read all that was typed.
C9_DeclinedOverwrite ==
  [][ \A p \in Pids :
        ( /\ CopiesThree(p)
          /\ AskedToOverwrite(out')
          /\ ~Answered(io', <<"y">>) ) =>
          /\ out'[Len(out')] = Msg("Operation aborted", <<>>)
          /\ ~Did(io', "open", "outStream")
          /\ fs' = fs
          /\ cin' = <<>> ]_vars

C9_Witness ==
  \E p \in Pids :
    /\ pc[p] = "ret"
    /\ Printed(out, "Operation aborted")
    /\ Answered(io, <<"y", "e", "s">>)
    /\ Exists(fs, CStr(a[p][2]))

\* C10: when the destination of a copy exists, whatever its permissions, it is
\* opened for writing only after the overwrite prompt was shown and answered
\* with y.
C10_PromptBeforeOverwrite ==
  [][ \A p \in Pids :
        ( /\ CopiesThree(p)
          /\ Exists(fs, CStr(a[p][2]))
          /\ Did(io', "open", "outStream") ) =>
          /\ AskedToOverwrite(out')
          /\ Answered(io', <<"y">>) ]_vars

\* the step of process p is a call of run with count 2
RunsTwo(p) ==
  /\ Dispatches(p, W_run)
  /\ aLength[p] = 2
  /\ Stepped(p)

\* the processes that exist
Alive == { c \in Pids : pc[c] # "unborn" }

\* C11: run with count 2 on a path that does not exist prints "Unable to find
\* executable file" with the path and nothing else, and goes to the end of the
\* loop body: the check is the only system call made, no fork and no wait is
\* performed, and the set of processes and their parents stay as they were.
C11_MissingExecutable ==
  [][ \A p \in Pids :
        (RunsTwo(p) /\ ~Exists(fs, CStr(a[p][1]))) =>
          /\ out' = Append(out, Msg("Unable to find executable file", CStr(a[p][1])))
          /\ io' = io \o << Call("run_cmd"), Ev("stat", "tmpBuffer", CStr(a[p][1]), FALSE) >>
          /\ ~Did(io', "fork", "p")
          /\ ~Did(io', "wait", "p")
          /\ pc' = [pc EXCEPT ![p] = "ret"]
          /\ Alive' = Alive
          /\ parent' = parent ]_vars

C11_Witness ==
  \E p \in Pids :
    /\ pc[p] = "ret"
    /\ aLength[p] = 2
    /\ CStr(a[p][0]) = W_run
    /\ ~Exists(fs, CStr(a[p][1]))
    /\ io = << Call("run_cmd"), Ev("stat", "tmpBuffer", CStr(a[p][1]), FALSE) >>
    /\ Printed(out, "Unable to find executable file")

\* the children of process p
Children(p) == { c \in Pids : pc[c] # "unborn" /\ parent[c] = p }

\* C12: a process that has a child takes no step (it prints no prompt, reads
\* no input, calls no handler) other than the return of its wait, which
\* happens only when the child has terminated and which removes the child;
\* a successful fork leaves the parent in its wait with one child; so a
\* process at its prompt, or with a parsed line, has no child, live or not
\* yet reaped.
C12_ParentWaits ==
  [][ \A p \in Pids :
        /\ (Stepped(p) /\ Children(p) # {}) =>
              /\ pc[p] = "wait"
              /\ pc'[p] = "ret"
              /\ \A c \in Children(p) : pc[c] = "exited"
              /\ Children(p)' = {}
              /\ out' = out
              /\ cin' = cin
        /\ (Stepped(p) /\ pc'[p] = "wait") =>
              /\ Children(p) = {}
              /\ Cardinality(Children(p)') = 1
        /\ pc'[p] \in {"prompt", "parsed"} => Children(p)' = {} ]_vars

C12_Witness ==
  \E p \in Pids :
    /\ pc[p] = "ret"
    /\ Did(io, "fork", "p")
    /\ Did(io, "execl", "child")
    /\ io[Len(io)] = Ev("wait", "p", <<>>, TRUE)
    /\ Children(p) = {}

\* the step of process p is a call of handler cmd that prints msgs and does
\* nothing else
OnlyPrints(p, handler, msgs) ==
  /\ out' = out \o msgs
  /\ io' = Append(io, Call(handler))
  /\ fs' = fs
  /\ cin' = cin
  /\ pc' = [pc EXCEPT ![p] = "ret"]
  /\ parent' = parent

\* the handler has opened a file or a directory, shown the overwrite prompt,
\* or forked
Acted(o, e) ==
  \/ AskedToOverwrite(o)
  \/ \E k \in 1..Len(e) : e[k].op \in {"open", "opendir", "stat", "fork"}

\* C13: for a typed line whose command, in lower case, is copy, run or list
\* and that parse accepts, the handler opens a file or a directory, prompts
\* or forks only when the number of tokens typed is 3 for copy, 2 for run, 1
\* or 2 for list; with any other number of tokens, also more than MAX_PARAMS,
\* it prints its usage message and does nothing else: the files, the input
\* and the processes stay as they were.
C13_ArityFromTypedLine ==
  [][ \A p \in Pids :
        (pc[p] = "parsed" /\ Stepped(p) /\ aLength[p] # -1 /\ typed.toks # <<>>) =>
          LET n == Len(typed.toks)
              cmd == LowerWord(typed.toks[1])
          IN /\ (cmd = W_copy /\ n # 3) =>
                  OnlyPrints(p, "copy_cmd",
                             << Msg("Invalid number of arguments", <<>>),
                                Msg("Usage: copy <old-filename> <new-filename>", <<>>) >>)
             /\ (cmd = W_run /\ n # 2) =>
                  OnlyPrints(p, "run_cmd",
                             << Msg("Invalid number of arguments", <<>>),
                                Msg("Usage: run <executable-file>", <<>>) >>)
             /\ (cmd = W_list /\ n > 2) =>
                  OnlyPrints(p, "list_cmd",
                             << Msg("Too many arguments", <<>>),
                                Msg("Usage: list [<directory>]", <<>>) >>)
             /\ (cmd \in {W_copy, W_run, W_list} /\ Acted(out', io')) =>
                  \/ cmd = W_copy /\ n = 3
                  \/ cmd = W_run /\ n = 2
                  \/ cmd = W_list /\ n \in {1, 2} ]_vars

C13_Witness ==
  \E p \in Pids :
    /\ pc[p] = "ret"
    /\ Len(typed.toks) = MAX_PARAMS + 1
    /\ LowerWord(typed.toks[1]) = W_copy
    /\ aLength[p] = MAX_PARAMS
    /\ io = <<Call("copy_cmd")>>
    /\ Printed(out, "Usage: copy <old-filename> <new-filename>")

\* a call op on obj that failed
Failed(e, op, obj) == \E k \in 1..Len(e) : e[k].op = op /\ e[k].obj = obj /\ ~e[k].ok

\* where a process is while it runs the interpreter
InInterpreter == {"prompt", "parsed", "ret", "wait", "exec"}

C15_EmptyLine ==
  \A p \in Pids :
    (typed.line # <<>> /\ typed.toks = <<>>) =>
      /\ pc[p] = "parsed" =>
           /\ aLength[p] = 0
           /\ \A i \in Slots : CStr(a[p][i]) = <<>>
           /\ out = <<Prompt>>
      /\ pc[p] = "ret" =>
           /\ io = <<>>
           /\ out = << Prompt, Msg("Unrecognized command", <<>>),
                       Msg("Type help to view a list of valid commands", <<>>) >>

C15_Witness ==
  \E p \in Pids :
    /\ pc[p] = "ret"
    /\ typed.toks = <<>>
    /\ typed.pad.lead > 0
    /\ a[p][0].top = JUNK
    /\ Printed(out, "Unrecognized command")

\* s is what is left of t after some of it, and not nothing, was read
ReadFrom(t, s) == Len(s) < Len(t) /\ s = SubSeq(t, Len(t) - Len(s) + 1, Len(t))

\* C16: a child whose execl fails does not terminate there: it keeps its
\* buffer and is at the end of the loop body of its own main, then prompts
\* and reads from the same input as its parent; as long as a child runs the
\* interpreter its parent is in its wait, which returns only when the child
\* has terminated.
C16_FailedExecChild ==
  [][ \A c \in Pids :
        /\ (pc[c] = "exec" /\ Stepped(c) /\ ~Executable(fs, CStr(a[c][1]))) =>
              /\ pc'[c] = "ret"
              /\ a'[c] = a[c]
              /\ parent'[c] = parent[c]
        /\ (parent[c] # 0 /\ pc[c] = "ret" /\ Stepped(c)) => pc'[c] = "prompt"
        /\ (parent[c] # 0 /\ pc[c] = "prompt" /\ Stepped(c)) =>
              /\ pc'[c] = "parsed"
              /\ out'[1] = Prompt
              /\ ReadFrom(cin \o typed'.line \o typed'.ahead, cin')
        /\ (parent'[c] # 0 /\ pc'[c] \in InInterpreter) => pc'[parent'[c]] = "wait"
        /\ (pc[c] = "wait" /\ Stepped(c)) => \A d \in Children(c) : pc[d] = "exited" ]_vars

C16_Witness ==
  \E p \in Pids :
    /\ pc[p] = "ret"
    /\ Len(io) = 3
    /\ io[1] = Call("quit_cmd")
    /\ io[2] = Ev("exit", "EXIT_SUCCESS", <<>>, TRUE)
    /\ io[3] = Ev("wait", "p", <<>>, TRUE)

\* C17: when the copy handler has returned, every stream it opened (the
\* source, the probe of the overwrite check, the destination) has been
\* closed after it was opened, on every path; with a wrong count or the same
\* file twice no stream was opened.
C17_StreamsClosed ==
  (io # <<>> /\ io[1] = Call("copy_cmd")) =>
    /\ \A k \in 1..Len(io) :
         (io[k].op = "open" /\ io[k].ok) =>
           \E j \in (k + 1)..Len(io) :
             io[j].op = "close" /\ io[j].obj = io[k].obj /\ io[j].name = io[k].name
    /\ (Printed(out, "Invalid number of arguments") \/ Printed(out, "Cannot copy same file!"))
         => io = <<Call("copy_cmd")>>

C17_Witness ==
  /\ io # <<>>
  /\ io[1] = Call("copy_cmd")
  /\ \E k \in 1..Len(io) : io[k].op = "open" /\ io[k].obj = "stream" /\ io[k].ok
  /\ \E k \in 1..Len(io) : io[k].op = "open" /\ io[k].obj = "outStream" /\ io[k].ok
  /\ io[Len(io)].op = "close"

\* C18: parse writes only inside the buffer: no write has landed outside
\* slots 0..MAX_PARAMS-1 or outside indices 0..MAX_PARAM_LENGTH of a slot,
\* and every slot holds MAX_PARAM_LENGTH + 1 characters.
C18_WritesInBounds ==
  /\ oob = FALSE
  /\ \A p \in Pids :
       /\ DOMAIN a[p] = Slots
       /\ \A i \in Slots : Len(a[p][i].txt) <= MAX_PARAM_LENGTH

C18_Witness ==
  \E p \in Pids :
    /\ pc[p] = "parsed"
    /\ aLength[p] = -1
    /\ Len(typed.toks) = MAX_PARAMS
    /\ OverLong(typed.toks[MAX_PARAMS])
    /\ Cell(a[p][MAX_PARAMS - 1], MAX_PARAM_LENGTH) = "x"
    /\ oob = FALSE

\* the processes that can take a step of the interpreter
Runnable == { p \in Pids : pc[p] \in InInterpreter \ {"wait"} }

\* C19: the processes form a chain: a process is in its wait exactly when it
\* has a child, it has one child at most, and the parent of every process
\* that has one is in its wait; so at most one process is at a place where it
\* prompts, reads input or acts on a command.
C19_OneRunnable ==
  /\ Cardinality(Runnable) <= 1
  /\ \A p \in Alive :
       /\ pc[p] = "wait" <=> Children(p) # {}
       /\ Cardinality(Children(p)) <= 1
       /\ parent[p] # 0 => pc[parent[p]] = "wait"

C19_Witness ==
  \E p, c, g \in Pids :
    /\ parent[c] = p
    /\ parent[g] = c
    /\ pc[p] = "wait"
    /\ pc[c] = "wait"
    /\ pc[g] = "parsed"

\* C20: whenever parse returns a count n that is not negative, whatever the
\* lines before, n is the number of tokens of the line (MAX_PARAMS at most),
\* each slot below n reads as its token of the line (the command name in
\* lower case) and each other slot reads as the empty string.
C20_NoStaleData ==
  \A p \in Pids :
    (pc[p] = "parsed" /\ aLength[p] >= 0) =>
      /\ aLength[p] = Cardinality(Kept(typed.toks))
      /\ \A i \in Slots :
           CStr(a[p][i]) = IF i < aLength[p] THEN Stored(i + 1, typed.toks[i + 1]) ELSE <<>>

C20_Witness ==
  \E p \in Pids :
    /\ pc[p] = "parsed"
    /\ aLength[p] >= 2
    /\ a[p][1].top = "x"
    /\ a[p][2].top = NUL
    /\ a[p][3].top = "x"

====
